---- MODULE Spec2Model ----
(***************************************************************************)
(* hwr-calendar: a feed service that fetches an iCalendar feed, removes    *)
(* the entries that mention a block-listed course title, and republishes   *)
(* the cleaned feed at GET /calendar.ics (src/src/index.ts).               *)
(*                                                                         *)
(* Text is a sequence of tokens.  The four structural markers are single   *)
(* tokens, line terminators and blanks are single tokens ("CR", "LF",      *)
(* "SP", "TAB"), every other token is one ordinary character.  A phrase of *)
(* the block list is a sequence of lower-case characters, so a phrase can  *)
(* be split by a folded line and can appear in another letter-casing.      *)
(***************************************************************************)
EXTENDS Integers, Sequences, FiniteSets, TLC

VARIABLES
    feed,       \* the raw text the upstream source answers with (response.data)
    passes,     \* the results of unfolding the feed once, twice, ...
    file,       \* the content of ICS_LOCAL_PATH, or NoFile
    pc,         \* pc[c]: where invocation c of updateICSFile stands
    err,        \* err[c]: why invocation c ended in its catch block
    writer,     \* the invocation whose writeFileSync stored `file` (0: none)
    published,  \* every artifact a writeFileSync has stored so far
    rd          \* rd[r]: the state of GET /calendar.ics request r

vars == <<feed, passes, file, pc, err, writer, published, rd>>

(***************************************************************************)
(* Tokens                                                                  *)
(***************************************************************************)
BVC == "BEGIN:VCALENDAR"
EVC == "END:VCALENDAR"
BEV == "BEGIN:VEVENT"
EEV == "END:VEVENT"
CR  == "CR"
LF  == "LF"
SP  == "SP"
TAB == "TAB"

\* The value of `file` while ICS_LOCAL_PATH does not exist: a text no
\* writeFileSync stores.
NoFile == <<"ENOENT">>

\* The block list: two phrases stand for the eleven course titles.
DESCRIPTIONS_TO_DELETE == { <<"a", "b">>, <<"c">> }

\* The regular expression's 'i' flag: letters compare by their case folding.
Lower(t) == CASE t = "A" -> "a" [] t = "B" -> "b" [] t = "C" -> "c" [] OTHER -> t

LowerAll(s) == [i \in 1..Len(s) |-> Lower(s[i])]

(***************************************************************************)
(* String primitives, as JavaScript computes them (indices are 1-based     *)
(* here, so JavaScript's -1 "not found" is 0).                             *)
(***************************************************************************)
includes(s, t) == \E i \in 1..Len(s) : s[i] = t

indexOf(s, t) ==
    IF includes(s, t)
    THEN CHOOSE i \in 1..Len(s) : s[i] = t /\ \A j \in 1..(i - 1) : s[j] # t
    ELSE 0

lastIndexOf(s, t) ==
    IF includes(s, t)
    THEN CHOOSE i \in 1..Len(s) : s[i] = t /\ \A j \in (i + 1)..Len(s) : s[j] # t
    ELSE 0

endsWith(s, t) == Len(s) > 0 /\ s[Len(s)] = t

\* s.includes(p) for a phrase p of several characters
includesSeq(s, p) ==
    \E i \in 1..(Len(s) - Len(p) + 1) : SubSeq(s, i, i + Len(p) - 1) = p

IsSpace(t) == t \in {CR, LF, SP, TAB}

\* s.trim() is the empty string
trimIsEmpty(s) == \A i \in 1..Len(s) : IsSpace(s[i])

RECURSIVE split(_, _)
split(s, sep) ==
    LET i == indexOf(s, sep)
    IN  IF i = 0 THEN <<s>>
        ELSE <<SubSeq(s, 1, i - 1)>> \o split(SubSeq(s, i + 1, Len(s)), sep)

RECURSIVE join(_)
join(ss) == IF Len(ss) = 0 THEN <<>> ELSE Head(ss) \o join(Tail(ss))

(***************************************************************************)
(* The steps of updateICSFile                                              *)
(***************************************************************************)
\* rawICS.replace(/\r\n/g, '\n')
RECURSIVE ReplaceCRLF(_)
ReplaceCRLF(s) ==
    IF Len(s) = 0 THEN <<>>
    ELSE IF Len(s) >= 2 /\ s[1] = CR /\ s[2] = LF
         THEN <<LF>> \o ReplaceCRLF(SubSeq(s, 3, Len(s)))
         ELSE <<s[1]>> \o ReplaceCRLF(Tail(s))

\* .replace(/\r/g, '\n')
ReplaceCR(s) == [i \in 1..Len(s) |-> IF s[i] = CR THEN LF ELSE s[i]]

\* A normalisation that forgets the bare carriage return.
NormalizeOnlyCRLF(s) == ReplaceCRLF(s)

NormalizeLineEndings(s) == ReplaceCR(ReplaceCRLF(s))

\* An unfolding that joins the continuation with a blank instead of nothing.
RECURSIVE UnfoldWithBlank(_)
UnfoldWithBlank(s) ==
    IF Len(s) = 0 THEN <<>>
    ELSE IF Len(s) >= 2 /\ s[1] = LF /\ s[2] \in {SP, TAB}
         THEN <<SP>> \o UnfoldWithBlank(SubSeq(s, 3, Len(s)))
         ELSE <<s[1]>> \o UnfoldWithBlank(Tail(s))

\* rawICS.replace(/\n[ \t]/g, ''): one left-to-right pass, matches do not overlap
RECURSIVE UnfoldLines(_)
UnfoldLines(s) ==
    IF Len(s) = 0 THEN <<>>
    ELSE IF Len(s) >= 2 /\ s[1] = LF /\ s[2] \in {SP, TAB}
         THEN UnfoldLines(SubSeq(s, 3, Len(s)))
         ELSE <<s[1]>> \o UnfoldLines(Tail(s))

\* Lines 44-48 together: what the code calls rawICS from line 48 on.
unfold(x) == UnfoldLines(NormalizeLineEndings(x))

\* cleanedICS.replace(/\n/g, '\r\n')
RECURSIVE ToCRLF(_)
ToCRLF(s) ==
    IF Len(s) = 0 THEN <<>>
    ELSE IF s[1] = LF THEN <<CR, LF>> \o ToCRLF(Tail(s))
         ELSE <<s[1]>> \o ToCRLF(Tail(s))

\* rawICS.includes('BEGIN:VCALENDAR') && rawICS.includes('END:VCALENDAR')
HasWrapper(rawICS) == includes(rawICS, BVC) /\ includes(rawICS, EVC)

\* DESCRIPTION_REGEX.test(event)
shouldDeleteEvent(event) ==
    \E p \in DESCRIPTIONS_TO_DELETE : includesSeq(LowerAll(event), p)

\* A rebuilt event whose text was trimmed on the way.
RECURSIVE DropLeadingSpace(_)
DropLeadingSpace(s) ==
    IF Len(s) > 0 /\ IsSpace(s[1]) THEN DropLeadingSpace(Tail(s)) ELSE s

FullEventTrimmed(eventPart) == <<BEV>> \o DropLeadingSpace(eventPart)

\* 'BEGIN:VEVENT' + eventPart
FullEvent(eventPart) == <<BEV>> \o eventPart

\* The filter callback of lines 81-98.
KeepEvent(event) == includes(event, EEV) /\ ~shouldDeleteEvent(event)

\* Lines 110-117.
EnsureCalendarEnding(cleanedICS) ==
    IF endsWith(cleanedICS, EVC) THEN cleanedICS
    ELSE (IF includes(cleanedICS, EVC)
          THEN SubSeq(cleanedICS, 1, lastIndexOf(cleanedICS, EVC) - 1)
          ELSE cleanedICS) \o <<EVC, LF>>

\* Lines 67-120: the branch taken when the text holds a BEGIN:VEVENT.
Reassemble(rawICS) ==
    LET headerEndIndex == indexOf(rawICS, BEV)
        calendarHeader == SubSeq(rawICS, 1, headerEndIndex - 1)
        eventsSection  == SubSeq(rawICS, headerEndIndex, Len(rawICS))
        eventParts     == SelectSeq(split(eventsSection, BEV),
                                    LAMBDA e : ~trimIsEmpty(e))
        fullEvents     == [i \in 1..Len(eventParts) |-> FullEvent(eventParts[i])]
        validFilteredEvents == SelectSeq(fullEvents, KeepEvent)
    IN  ToCRLF(EnsureCalendarEnding(calendarHeader \o join(validFilteredEvents)))

\* What one run of the body of updateICSFile does with the response it got:
\* whether it wrote, what it wrote, and whether it ended in the catch block.
Outcome(wrote, data, threw) == [wrote |-> wrote, data |-> data, threw |-> threw]

\* A variant that validates only after it has written.
updateWritesBeforeValidating(data) ==
    LET rawICS == unfold(data)
    IN  Outcome(TRUE, ToCRLF(rawICS), ~HasWrapper(rawICS))

updateICSFile(data) ==
    LET rawICS == unfold(data)
    IN  IF ~HasWrapper(rawICS) THEN Outcome(FALSE, <<>>, TRUE)
        ELSE IF indexOf(rawICS, BEV) = 0 THEN Outcome(TRUE, ToCRLF(rawICS), FALSE)
        ELSE Outcome(TRUE, Reassemble(rawICS), FALSE)

(***************************************************************************)
(* Bounds and inputs                                                       *)
(***************************************************************************)
MaxCycles  == 3   \* invocations of updateICSFile: the initial one and the ticks
MaxReaders == 1   \* GET /calendar.ics requests in flight
MaxFree    == 4   \* longest feed made of arbitrary tokens
MaxChunks  == 5   \* longest feed made of whole lines and entries
MaxText    == 5   \* longest text of the unfolding runs
MaxPasses  == 2   \* how often the unfolding runs apply the unfolding

\* Tokens a read of the stream returns at most (the stream's highWaterMark).
HighWaterMark == 4

Cycles  == 1..MaxCycles
Readers == 1..MaxReaders

SeqsUpTo(S, n) == UNION { [1..k -> S] : k \in 0..n }

\* Feeds of arbitrary tokens: every malformed shape up to MaxFree tokens.
FreeAlphabet == {BVC, EVC, BEV, EEV, "x", LF, CR, SP}
FreeFeeds == SeqsUpTo(FreeAlphabet, MaxFree)

\* Feeds made of whole lines and entries, in any order and number.
Chunks == {
    <<BVC, LF>>,
    <<EVC, LF>>,
    <<BEV, LF, "x", LF, EEV, LF>>,                 \* an entry, LF lines
    <<BEV, CR, LF, "y", CR, LF, EEV, CR, LF>>,     \* an entry, CRLF lines
    <<BEV, LF, "A", LF, SP, "b", LF, EEV, LF>>,    \* a phrase, folded, other casing
    <<BEV, CR, "C", CR, EEV, CR>>,                 \* the other phrase, CR lines
    <<BEV, LF, "x", LF>>,                          \* an entry without END:VEVENT
    <<"a", "b", LF>> }                             \* a phrase on a line of its own

ChunkFeeds == { join(cs) : cs \in SeqsUpTo(Chunks, MaxChunks) }

Feeds == FreeFeeds \cup ChunkFeeds

\* Texts of the unfolding runs.
TextAlphabet == {CR, LF, SP, TAB, "x"}
Texts == SeqsUpTo(TextAlphabet, MaxText)

\* What the upstream answers a running service with.
ServiceFeeds == {
    <<BVC, LF, BEV, LF, "x", LF, EEV, LF, EVC, LF>>,     \* one entry
    <<BVC, LF, EVC, LF>>,                                \* no entry
    <<BVC, LF, BEV, LF, "x", LF, EEV, LF>> }             \* no END:VCALENDAR

(***************************************************************************)
(* The service: updateICSFile is invoked once when the module is loaded    *)
(* and once per cron tick; each invocation suspends at `await axios.get`   *)
(* and runs the rest, to the end of writeFileSync, in one turn of the      *)
(* event loop.                                                             *)
(***************************************************************************)
IdleReader == [pc |-> "idle", pos |-> 0, body |-> <<>>]

InitRest ==
    /\ passes = <<>>
    /\ file = NoFile
    /\ pc = [c \in Cycles |-> IF c = 1 THEN "fetching" ELSE "idle"]
    /\ err = [c \in Cycles |-> "none"]
    /\ writer = 0
    /\ published = {}
    /\ rd = [r \in Readers |-> IdleReader]

Init == feed = <<>> /\ InitRest

\* cron.schedule('0 */6 * * *', updateICSFile): the tick calls updateICSFile,
\* whatever the earlier invocations are doing.
Tick ==
    \E c \in Cycles :
        /\ pc[c] = "idle"
        /\ \A d \in 1..(c - 1) : pc[d] # "idle"
        /\ pc' = [pc EXCEPT ![c] = "fetching"]
        /\ UNCHANGED <<feed, passes, file, err, writer, published, rd>>

\* axios.get rejects: the catch block logs the error.
FetchFails(c) ==
    /\ pc[c] = "fetching"
    /\ pc' = [pc EXCEPT ![c] = "failed"]
    /\ err' = [err EXCEPT ![c] = "fetch"]
    /\ UNCHANGED <<feed, passes, file, writer, published, rd>>

\* axios.get resolves with `data`: the rest of updateICSFile runs.  It is
\* synchronous, so no other callback runs before writeFileSync has returned:
\* the write is one step, and it replaces the content of the file in place.
Respond(c, data) ==
    /\ pc[c] = "fetching"
    /\ LET o == updateICSFile(data)
       IN  /\ file' = IF o.wrote THEN o.data ELSE file
           /\ writer' = IF o.wrote THEN c ELSE writer
           /\ published' = IF o.wrote THEN published \cup {o.data} ELSE published
           /\ pc' = [pc EXCEPT ![c] = IF o.threw THEN "failed" ELSE "done"]
           /\ err' = [err EXCEPT ![c] = IF o.threw THEN "structure" ELSE @]
    /\ UNCHANGED <<feed, passes, rd>>

\* app.get('/calendar.ics'): the existence check, then the stream is created.
GetCalendar(r) ==
    /\ rd[r].pc = "idle"
    /\ rd' = [rd EXCEPT ![r] = [pc |-> IF file = NoFile THEN "notfound" ELSE "streaming",
                                pos |-> 0, body |-> <<>>]]
    /\ UNCHANGED <<feed, passes, file, pc, err, writer, published>>

\* One read of the stream, piped to the response: the next HighWaterMark tokens
\* of the file as it is now; a read that returns nothing ends the response.
StreamRead(r) ==
    /\ rd[r].pc = "streaming"
    /\ LET pos   == rd[r].pos
           upto  == IF pos + HighWaterMark < Len(file) THEN pos + HighWaterMark ELSE Len(file)
           chunk == SubSeq(file, pos + 1, upto)
       IN  rd' = [rd EXCEPT ![r] =
                     IF chunk = <<>>
                     THEN [@ EXCEPT !.pc = "ended"]
                     ELSE [@ EXCEPT !.pos = pos + Len(chunk), !.body = @ \o chunk]]
    /\ UNCHANGED <<feed, passes, file, pc, err, writer, published>>

Next ==
    \/ Tick
    \/ \E c \in Cycles : FetchFails(c)
    \/ \E c \in Cycles : \E data \in ServiceFeeds : Respond(c, data)
    \/ \E r \in Readers : GetCalendar(r)
    \/ \E r \in Readers : StreamRead(r)

Spec == Init /\ [][Next]_vars

(***************************************************************************)
(* One refresh cycle on an arbitrary feed.                                 *)
(***************************************************************************)
InitEngine == feed \in Feeds /\ InitRest

NextEngine == Respond(1, feed)

SpecEngine == InitEngine /\ [][NextEngine]_vars

(***************************************************************************)
(* The unfolding step applied again and again to an arbitrary text.        *)
(***************************************************************************)
InitUnfold == feed \in Texts /\ InitRest

Unfold ==
    /\ Len(passes) < MaxPasses
    /\ passes' = Append(passes, unfold(IF passes = <<>> THEN feed ELSE passes[Len(passes)]))
    /\ UNCHANGED <<feed, file, pc, err, writer, published, rd>>

NextUnfold == Unfold

SpecUnfold == InitUnfold /\ [][NextUnfold]_vars

(***************************************************************************)
(* Vocabulary of the properties                                            *)
(***************************************************************************)
Range(s) == { s[i] : i \in 1..Len(s) }

Count(s, t) == Cardinality({ i \in 1..Len(s) : s[i] = t })

\* The input as the properties speak of it: line endings normalised, unfolded.
Input == unfold(feed)

\* A refresh cycle on `feed` has run and has written the artifact.
Written == pc[1] = "done" /\ file # NoFile

\* The fragment a BEGIN:VEVENT at position i introduces: up to the next
\* BEGIN:VEVENT or the end of the text.
FragmentAt(t, i) ==
    LET later == { j \in (i + 1)..Len(t) : t[j] = BEV }
        stop  == IF later = {} THEN Len(t) + 1
                 ELSE CHOOSE j \in later : \A k \in later : j <= k
    IN  SubSeq(t, i, stop - 1)

Fragments(t) ==
    LET at == SelectSeq([i \in 1..Len(t) |-> i], LAMBDA i : t[i] = BEV)
    IN  [k \in 1..Len(at) |-> FragmentAt(t, at[k])]

HasEnd(f) == \E i \in 1..Len(f) : f[i] = EEV

\* The entries of a text, in order: each fragment that has an END:VEVENT, from
\* its BEGIN:VEVENT through the first END:VEVENT after it.
Entries(t) ==
    LET fs == SelectSeq(Fragments(t), HasEnd)
    IN  [k \in 1..Len(fs) |->
            SubSeq(fs[k], 1, CHOOSE i \in 1..Len(fs[k]) :
                                 fs[k][i] = EEV /\ \A j \in 1..(i - 1) : fs[k][j] # EEV)]

\* The fragments without an END:VEVENT.
BrokenFragments(t) == { f \in Range(Fragments(t)) : ~HasEnd(f) }

\* The text holds one of the configured phrases, in any letter-casing.
MentionsPhrase(e) ==
    \E p \in DESCRIPTIONS_TO_DELETE : \E i \in 1..Len(e) :
        /\ i + Len(p) - 1 <= Len(e)
        /\ \A k \in 1..Len(p) : Lower(e[i + k - 1]) = p[k]

\* The same text with the artifact's line endings.
AsWritten(e) ==
    LET RECURSIVE W(_)
        W(s) == IF s = <<>> THEN <<>>
                ELSE (IF Head(s) = LF THEN <<CR, LF>> ELSE <<Head(s)>>) \o W(Tail(s))
    IN  W(e)

\* a is b with zero or more elements deleted
RECURSIVE IsSubseq(_, _)
IsSubseq(a, b) ==
    IF a = <<>> THEN TRUE
    ELSE IF b = <<>> THEN FALSE
    ELSE IF Head(a) = Head(b) THEN IsSubseq(Tail(a), Tail(b))
    ELSE IsSubseq(a, Tail(b))

(***************************************************************************)
(* C1  Single wrapper                                                      *)
(***************************************************************************)
\* C1: every artifact updateICSFile writes holds exactly one BEGIN:VCALENDAR and
\* exactly one END:VCALENDAR, the former before the latter, however many of
\* each the feed held.
C1_SingleWrapper ==
    Written =>
        /\ Count(file, BVC) = 1
        /\ Count(file, EVC) = 1
        /\ indexOf(file, BVC) < indexOf(file, EVC)

(***************************************************************************)
(* C2  Filter decision                                                     *)
(***************************************************************************)
\* C2: once the artifact of a valid feed is written, an entry of the input that
\* mentions a configured phrase (in any casing, folded or not) is not an entry
\* of the artifact, and an entry that mentions none is.
C2_FilterDecision ==
    Written =>
        \A e \in Range(Entries(Input)) :
            IF MentionsPhrase(e)
            THEN AsWritten(e) \notin Range(Entries(file))
            ELSE AsWritten(e) \in Range(Entries(file))

(***************************************************************************)
(* C3  Retained entries are a verbatim subsequence                         *)
(***************************************************************************)
InputEntriesAsWritten ==
    LET es == Entries(Input) IN [k \in 1..Len(es) |-> AsWritten(es[k])]

\* C3: the entries of the written artifact are the entries of the input
\* (normalised, unfolded) with zero or more of them deleted: none altered,
\* reordered or duplicated, and no more of them than the input had.
C3_VerbatimSubsequence ==
    Written =>
        /\ IsSubseq(Entries(file), InputEntriesAsWritten)
        /\ Len(Entries(file)) <= Len(Entries(Input))

\* A well-formed feed of three entries went in, the middle one mentions a
\* phrase, and the first and the third, which differ, came out in that order.
C3_Witness ==
    /\ Written
    /\ Head(Input) = BVC /\ Count(Input, BVC) = 1
    /\ Count(Input, EVC) = 1 /\ lastIndexOf(Input, EVC) = Len(Input) - 1
    /\ Len(Entries(Input)) = 3
    /\ MentionsPhrase(Entries(Input)[2])
    /\ Entries(Input)[1] # Entries(Input)[3]
    /\ Entries(file) = <<AsWritten(Entries(Input)[1]), AsWritten(Entries(Input)[3])>>

(***************************************************************************)
(* C4  Stale but valid on failure                                          *)
(***************************************************************************)
\* C4: the step in which a refresh cycle fails (the fetch failed, or the text
\* lacks a wrapper marker) writes nothing: the artifact GET /calendar.ics
\* serves is after the step what it was before, or still absent.
C4_StaleOnFailure ==
    [][\A c \in Cycles :
          (pc[c] # "failed" /\ pc'[c] = "failed") =>
              (file' = file /\ writer' = writer /\ published' = published)]_vars

\* An artifact written by an earlier cycle is still the stored one after a later
\* cycle failed on the structure of its feed and another on its fetch.
C4_Witness ==
    /\ file # NoFile
    /\ \E c \in Cycles : pc[c] = "failed" /\ err[c] = "structure" /\ writer < c
    /\ \E c \in Cycles : pc[c] = "failed" /\ err[c] = "fetch" /\ writer < c

(***************************************************************************)
(* C5  Atomic publish                                                      *)
(***************************************************************************)
\* C5: the body of every completed response to GET /calendar.ics is one whole
\* artifact that a refresh stored: never empty, cut short, or a mixture of two.
C5_AtomicPublish ==
    \A r \in Readers : rd[r].pc = "ended" => rd[r].body \in published

(***************************************************************************)
(* C6  Idempotent unfolding                                                *)
(***************************************************************************)
\* C6: unfolding an unfolded text changes nothing: unfold(unfold(x)) = unfold(x).
C6_Idempotent ==
    Len(passes) >= 2 => passes[2] = passes[1]

\* A line terminator, then one or more folds (a terminator and one blank each),
\* then one more blank: the first pass removes the folds and leaves a new one.
FoldAfterBreak(t) ==
    \E i \in 1..Len(t) : \E n \in 1..Len(t) :
        /\ i + 2 * n + 1 <= Len(t)
        /\ t[i] = LF
        /\ \A m \in 0..(n - 1) : t[i + 1 + 2 * m] = LF /\ t[i + 2 + 2 * m] \in {SP, TAB}
        /\ t[i + 2 * n + 1] \in {SP, TAB}

\* C6 (amended): unfold(unfold(x)) = unfold(x) for every text x that, with its
\* line endings normalised, holds no line terminator followed by one or more
\* folds and then a further space or tab.
C6_IdempotentWithoutFoldAfterBreak ==
    ~FoldAfterBreak(NormalizeLineEndings(feed)) =>
        \A k \in 2..Len(passes) : passes[k] = passes[1]

\* A text with a folded line and a blank left behind the fold, unfolded twice.
C6_Witness ==
    /\ Len(passes) = 2
    /\ ~FoldAfterBreak(NormalizeLineEndings(feed))
    /\ Len(passes[1]) < Len(NormalizeLineEndings(feed))
    /\ \E i \in 1..Len(passes[1]) : passes[1][i] \in {SP, TAB}
    /\ passes[2] = passes[1]

(***************************************************************************)
(* C7  Zero-entry feed                                                     *)
(***************************************************************************)
HeaderAsWritten == AsWritten(SubSeq(Input, 1, indexOf(Input, EVC) - 1))

\* C7: a valid feed without BEGIN:VEVENT is written, not refused, and the
\* artifact is the text before the end-marker followed by one END:VCALENDAR
\* line and nothing after it.
C7_ZeroEntryFeed ==
    (pc[1] # "fetching" /\ HasWrapper(Input) /\ ~includes(Input, BEV)) =>
        /\ Written
        /\ file \in { HeaderAsWritten \o <<EVC, CR, LF>>, HeaderAsWritten \o <<EVC>> }

(***************************************************************************)
(* C8  CRLF output                                                         *)
(***************************************************************************)
\* C8: in every written artifact each line terminator is CRLF: no LF without a
\* CR before it, no CR without an LF after it.
C8_CRLFOutput ==
    Written =>
        \A i \in 1..Len(file) :
            /\ file[i] = LF => (i > 1 /\ file[i - 1] = CR)
            /\ file[i] = CR => (i < Len(file) /\ file[i + 1] = LF)

\* The feed mixed a bare CR, a bare LF and a CRLF, and the artifact has lines.
C8_Witness ==
    /\ Written
    /\ \E i \in 1..Len(feed) : feed[i] = CR /\ (i = Len(feed) \/ feed[i + 1] # LF)
    /\ \E i \in 1..Len(feed) : feed[i] = LF /\ (i = 1 \/ feed[i - 1] # CR)
    /\ \E i \in 1..(Len(feed) - 1) : feed[i] = CR /\ feed[i + 1] = LF
    /\ Count(file, LF) >= 3

(***************************************************************************)
(* C9  Single logical writer                                               *)
(***************************************************************************)
Running(c) == pc[c] = "fetching"

\* C9: at most one invocation of updateICSFile is between its start and its end,
\* and the stored artifact comes from the most recently started invocation
\* that succeeded.
C9_SingleWriter ==
    /\ \A c, d \in Cycles : (Running(c) /\ Running(d)) => c = d
    /\ writer # 0 => \A c \in Cycles : pc[c] = "done" => c <= writer

(***************************************************************************)
(* C10  Entry-level corruption is isolated                                 *)
(***************************************************************************)
\* C10: when a valid feed holds fragments without END:VEVENT, the artifact is
\* still written, none of those fragments is a fragment of it, and every entry
\* that has its END:VEVENT and mentions no phrase is an entry of it.
C10_CorruptionIsolated ==
    (pc[1] # "fetching" /\ HasWrapper(Input) /\ BrokenFragments(Input) # {}) =>
        /\ Written
        /\ \A f \in BrokenFragments(Input) : AsWritten(f) \notin Range(Fragments(file))
        /\ \A e \in Range(Entries(Input)) :
               ~MentionsPhrase(e) => AsWritten(e) \in Range(Entries(file))

====
